---- MODULE Spec2Model ----
(***************************************************************************)
(* Emerald Yield Simulator: the financial formulas, the dataset cache of   *)
(* services/prediction.js and the dataset acquisition of                   *)
(* services/dataLoader.js.                                                 *)
(*                                                                         *)
(* Numbers.  JavaScript numbers are modelled as exact rationals.  Rents,   *)
(* fees, incomes and listing prices are carried in integer cents, purchase *)
(* prices in whole euros, a rate as a fraction [n, d] with d > 0, and      *)
(* Math.round(x) is floor(x + 1/2).                                        *)
(*                                                                         *)
(* Asynchrony.  Every `await` of the source is a point where the function  *)
(* is suspended; any other handler may run before it resumes.  The code    *)
(* between two awaits runs as one step.                                    *)
(***************************************************************************)
EXTENDS Integers, Sequences, FiniteSets, TLC

VARIABLES
    \* services/prediction.js, module state
    cachedStats, cachedDataset, datasetLoaded, datasetLoadingPromise,
    \* the promises created by the async IIFE of getDatasetStats, oldest first
    loads,
    \* history: number of resetCache calls and of getDatasetStatsSync loads so far
    epoch, syncs,
    \* the invocations of the exported async functions
    tasks,
    \* services/dataLoader.js: the local dataset file, the clock and the
    \* ensureDataset / downloadDataset call in progress
    file, now, acq,
    \* an evaluation of the pure functions on its own
    calc,
    \* the persisted Simulation documents and the HTTP request being handled
    store, req

cacheVars == <<cachedStats, cachedDataset, datasetLoaded, datasetLoadingPromise,
               loads, epoch, syncs, tasks>>
acqVars == <<file, now, acq>>
webVars == <<store, req>>
vars == <<cachedStats, cachedDataset, datasetLoaded, datasetLoadingPromise,
          loads, epoch, syncs, tasks, file, now, acq, calc, store, req>>

\* JavaScript null, and "no value yet"
NULL == [null |-> TRUE]
NONE == [none |-> TRUE]

----------------------------------------------------------------------------
(* Bounds of the model *)

MaxTasks == 2       \* concurrent invocations of the async functions
MaxLoads == 2       \* dataset loads started over a run
MaxResets == 1      \* resetCache calls over a run
MaxSyncs == 1       \* getDatasetStatsSync loads over a run
MaxRecords == 2     \* rows of a dataset file
MaxYears == 2       \* `years` argument of predictReturnOverYears
MaxYear == 5        \* `year` argument of netMonthlyIncome
MaxHalfDays == 3    \* the clock runs up to this many half cache durations
MaxOddMs == 1       \* and up to this many single milliseconds beyond one of them
MaxCalcYears == 3   \* `years` argument of returnOverYears
MaxStored == 2      \* Simulation documents saved over a run
MaxTotal == 45      \* Simulation documents in the collection the admin list reads
MaxPage == 4        \* `page` query parameter
MaxText == 3        \* characters of a CSV field

----------------------------------------------------------------------------
(* config/constants.js *)

\* commission rates, in percent
COMMISSION_RATES == [YEAR_1 |-> 30, YEAR_2 |-> 25, DEFAULT |-> 20]

\* AVERAGE_DAYS_PER_MONTH in hundredths of a day, PRICE_MARGIN in percent
PREDICTION_CONFIG == [AVERAGE_DAYS_PER_MONTH |-> 3042, PRICE_MARGIN |-> 15]

\* CACHE_DURATION in milliseconds
DATASET_CONFIG == [CACHE_DURATION |-> 24 * 60 * 60 * 1000]

----------------------------------------------------------------------------
(* utils/helpers.js *)

MathFloor(n, d) == n \div d

\* Math.round of the rational n/d (d > 0): nearest integer, ties towards +infinity
MathRound(n, d) == (2 * n + d) \div (2 * d)

\* Math.ceil(n / d), d > 0
MathCeil(n, d) == -((-n) \div d)

\* roundCurrency(value), decimals = 2: Math.round(value * factor) / factor.
\* n/d is value * factor, the value in hundredths, and so is the result.
roundCurrency(n, d) == MathRound(n, d)

----------------------------------------------------------------------------
(* services/calculator.js; amounts in cents *)

commissionRateYear2Up(year) ==
    IF year = 1 THEN COMMISSION_RATES.YEAR_1
    ELSE IF year >= 2 THEN COMMISSION_RATES.YEAR_2
    ELSE COMMISSION_RATES.DEFAULT

commissionRate(year) ==
    IF year = 1 THEN COMMISSION_RATES.YEAR_1
    ELSE IF year = 2 THEN COMMISSION_RATES.YEAR_2
    ELSE COMMISSION_RATES.DEFAULT

\* netAnnual = monthlyRent * occ * 12 * (1 - rate) - annualFee in cents is
\* NetAnnualNum / (100 * occ.d), for the occupancy multiplier occ
NetAnnualNum(monthlyRent, annualFee, rate, occ) ==
    monthlyRent * occ.n * 12 * (100 - rate) - annualFee * 100 * occ.d

\* netMonthlyIncome(monthlyRent, annualFee, year), in cents
netMonthlyIncome(monthlyRent, annualFee, year) ==
    roundCurrency(NetAnnualNum(monthlyRent, annualFee, commissionRate(year), [n |-> 1, d |-> 1]),
                  100 * 12)

\* The `years` argument is a JavaScript number, the fraction n/d (d > 0)
IsInteger(years) == years.n % years.d = 0

ValidationError(message) == [error |-> message]

ReturnEntryFromExact(purchasePrice, monthlyRent, annualFee, year) ==
    LET netMonthly == netMonthlyIncome(monthlyRent, annualFee, year)
        netAnnual == NetAnnualNum(monthlyRent, annualFee, commissionRate(year), [n |-> 1, d |-> 1])
    IN  [year |-> year,
         netMonthly |-> netMonthly,
         annualNet |-> roundCurrency(netAnnual, 100),
         roi |-> roundCurrency(netAnnual, purchasePrice)]

\* the entry pushed by the loop of returnOverYears for one year; amounts in
\* cents, purchasePrice in euros, roi in hundredths of a percent
ReturnEntry(purchasePrice, monthlyRent, annualFee, year) ==
    LET netMonthly == netMonthlyIncome(monthlyRent, annualFee, year)
    IN  [year |-> year,
         netMonthly |-> netMonthly,
         annualNet |-> roundCurrency(netMonthly * 12, 1),
         roi |-> IF purchasePrice > 0
                 THEN roundCurrency(netMonthly * 12 * 100, purchasePrice)
                 ELSE 0]

returnOverYearsUnchecked(purchasePrice, monthlyRent, annualFee, years) ==
    IF purchasePrice <= 0 THEN [entries |-> <<>>]
    ELSE [entries |-> [year \in 1..(years.n \div years.d) |->
                          ReturnEntry(purchasePrice, monthlyRent, annualFee, year)]]

returnOverYearsExclusive(purchasePrice, monthlyRent, annualFee, years) ==
    IF purchasePrice <= 0 \/ monthlyRent < 0 \/ annualFee < 0
       \/ years.n < years.d \/ ~IsInteger(years)
    THEN ValidationError("invalid")
    ELSE [entries |-> [year \in 1..((years.n \div years.d) - 1) |->
                          ReturnEntry(purchasePrice, monthlyRent, annualFee, year)]]

\* returnOverYears(purchasePrice, monthlyRent, annualFee, years), every
\* argument being a number: the error thrown, or the entries returned
returnOverYears(purchasePrice, monthlyRent, annualFee, years) ==
    IF purchasePrice <= 0
    THEN ValidationError("Purchase price must be a positive number")
    ELSE IF monthlyRent < 0
    THEN ValidationError("Monthly rent must be a non-negative number")
    ELSE IF annualFee < 0
    THEN ValidationError("Annual fee must be a non-negative number")
    ELSE IF years.n < years.d \/ ~IsInteger(years)
    THEN ValidationError("Years must be a positive integer")
    ELSE [entries |-> [year \in 1..(years.n \div years.d) |->
                          ReturnEntry(purchasePrice, monthlyRent, annualFee, year)]]

----------------------------------------------------------------------------
(* services/dataLoader.js: records, statistics, segmentation *)

\* a rate (a JavaScript number in [0, 1]) as the fraction n/d
Rate(n, d) == [n |-> n, d |-> d]
RateEq(a, b) == a.n * b.d = b.n * a.d
RateLeq(a, b) == a.n * b.d <= b.n * a.d
ZERO == Rate(0, 1)
ONE == Rate(1, 1)

\* the rows of the dataset files (listing_price in cents): for a monthly
\* rent of 608.40 the band is [17.00, 23.00], so the booked row lies on its
\* lower edge and the row that is not booked lies outside
Records == {[listing_price |-> 1700, is_booked |-> 1],
            [listing_price |-> 2400, is_booked |-> 0]}

\* what loadDataset can return: the rows of the file, in file order
Datasets == UNION {[1..k -> Records] : k \in 0..MaxRecords}

CountBooked(dataset) == Cardinality({i \in DOMAIN dataset : dataset[i].is_booked = 1})

RECURSIVE SumPrice(_)
SumPrice(dataset) ==
    IF dataset = <<>> THEN 0 ELSE Head(dataset).listing_price + SumPrice(Tail(dataset))

\* An array of rows is [rows |-> <<...>>], which tells it from null.
\* filterDatasetByPrice(dataset, minPrice, maxPrice); the bounds are fractions
filterDatasetByPriceExclusive(dataset, minPrice, maxPrice) ==
    IF dataset = NULL THEN [rows |-> <<>>]
    ELSE [rows |-> SelectSeq(dataset.rows, LAMBDA record :
                       /\ record.listing_price * minPrice.d > minPrice.n
                       /\ record.listing_price * maxPrice.d < maxPrice.n)]

filterDatasetByPrice(dataset, minPrice, maxPrice) ==
    IF dataset = NULL THEN [rows |-> <<>>]
    ELSE [rows |-> SelectSeq(dataset.rows, LAMBDA record :
                       /\ record.listing_price * minPrice.d >= minPrice.n
                       /\ record.listing_price * maxPrice.d <= maxPrice.n)]

calculateSegmentedAORTruthy(filteredDataset) ==
    IF filteredDataset = NULL THEN ZERO
    ELSE IF Len(filteredDataset.rows) = 0 THEN ZERO
    ELSE Rate(Cardinality({i \in DOMAIN filteredDataset.rows :
                              filteredDataset.rows[i].is_booked # 0}),
              Len(filteredDataset.rows))

\* calculateSegmentedAOR(filteredDataset)
calculateSegmentedAOR(filteredDataset) ==
    IF filteredDataset = NULL THEN ZERO
    ELSE IF Len(filteredDataset.rows) = 0 THEN ZERO
    ELSE Rate(CountBooked(filteredDataset.rows), Len(filteredDataset.rows))

bookingRatePercent(dataset) == Rate(CountBooked(dataset) * 100, Len(dataset))

\* totalBooked / dataset.length of calculateDatasetStats, dataset not empty
bookingRate(dataset) == Rate(CountBooked(dataset), Len(dataset))

\* calculateDatasetStats(dataset), with the `available` flag its callers set.
calculateDatasetStatsOfBooked(dataset, available) ==
    [avgListingPrice |-> ZERO, bookingRate |-> ONE,
     totalProperties |-> CountBooked(dataset), available |-> available]

\* Of the four averages only avgListingPrice is kept (in cents, as a
\* fraction); the other three columns are read by no other operation.
calculateDatasetStats(dataset, available) ==
    IF Len(dataset) = 0
    THEN [avgListingPrice |-> ZERO, bookingRate |-> ZERO,
          totalProperties |-> 0, available |-> available]
    ELSE [avgListingPrice |-> Rate(SumPrice(dataset), Len(dataset)),
          bookingRate |-> bookingRate(dataset),
          totalProperties |-> Len(dataset), available |-> available]

\* the literal statistics object of getDatasetStats / getDatasetStatsSync
\* for "no dataset"
EmptyStats ==
    [avgListingPrice |-> ZERO, bookingRate |-> ZERO,
     totalProperties |-> 0, available |-> FALSE]

----------------------------------------------------------------------------
(* services/prediction.js: the synchronous pieces *)

\* monthly rents (cents), annual fees (cents) and purchase prices (euros) the
\* invocations are made with
Rents == {60840}
Fees == {12000}
PurchasePrices == {200000}

StatsCached == cachedStats # NULL /\ datasetLoaded

StartsLoadAlways == ~StatsCached

\* getDatasetStats reaches the async IIFE: nothing cached, no load in flight
StartsLoad == ~StatsCached /\ datasetLoadingPromise = 0

\* the promise a getDatasetStats() call returns: load = 0 is a promise already
\* fulfilled with `value`, load = k the promise of the k-th load
Promise ==
    IF StatsCached THEN [load |-> 0, value |-> cachedStats]
    ELSE IF StartsLoad THEN [load |-> Len(loads) + 1, value |-> NONE]
    ELSE [load |-> datasetLoadingPromise, value |-> NONE]

Settled(p) == IF p.load = 0 THEN TRUE ELSE loads[p.load].settled
ValueOf(p) == IF p.load = 0 THEN p.value ELSE loads[p.load].value

\* the effect of one getDatasetStats() call on the module state
GetDatasetStats ==
    /\ StartsLoad => Len(loads) < MaxLoads
    /\ loads' = IF StartsLoad
                THEN Append(loads, [settled |-> FALSE, value |-> NONE, epoch |-> epoch,
                                    outcome |-> "none"])
                ELSE loads
    /\ datasetLoadingPromise' = IF StartsLoad THEN Len(loads) + 1 ELSE datasetLoadingPromise
    /\ UNCHANGED <<cachedStats, cachedDataset, datasetLoaded, epoch, syncs>>

\* what `await getDatasetPath()` and loadDataset deliver to a load
LoadOutcomes ==
    {[kind |-> "rejected", rows |-> <<>>], [kind |-> "nopath", rows |-> <<>>]}
    \cup {[kind |-> "path", rows |-> ds] : ds \in Datasets}

\* a rejected promise; as the result of an invocation, the error it throws
REJECTED == [rejected |-> TRUE]

LoadedWithoutCatch(outcome) ==
    IF outcome.kind = "path"
    THEN [stats |-> calculateDatasetStats(outcome.rows, TRUE),
          dataset |-> [rows |-> outcome.rows],
          value |-> calculateDatasetStats(outcome.rows, TRUE)]
    ELSE IF outcome.kind = "nopath"
    THEN [stats |-> EmptyStats, dataset |-> [rows |-> <<>>], value |-> EmptyStats]
    ELSE [stats |-> cachedStats, dataset |-> cachedDataset, value |-> REJECTED]

\* the body of the async IIFE after its await (try, `!datasetPath` branch
\* and catch): the statistics and the dataset it caches, and the value its
\* promise settles with
Loaded(outcome) ==
    IF outcome.kind = "path"
    THEN [stats |-> calculateDatasetStats(outcome.rows, TRUE),
          dataset |-> [rows |-> outcome.rows],
          value |-> calculateDatasetStats(outcome.rows, TRUE)]
    ELSE [stats |-> EmptyStats, dataset |-> [rows |-> <<>>], value |-> EmptyStats]

\* the price band of calculateSegmentedOccupancyRate: monthlyRent /
\* AVERAGE_DAYS_PER_MONTH * (1 -/+ PRICE_MARGIN), in cents, as fractions
MinPrice(monthlyRent) ==
    Rate(monthlyRent * (100 - PREDICTION_CONFIG.PRICE_MARGIN),
         PREDICTION_CONFIG.AVERAGE_DAYS_PER_MONTH)
MaxPrice(monthlyRent) ==
    Rate(monthlyRent * (100 + PREDICTION_CONFIG.PRICE_MARGIN),
         PREDICTION_CONFIG.AVERAGE_DAYS_PER_MONTH)

Fallback(stats, totalCount) ==
    [segmentedAOR |-> stats.bookingRate, globalAOR |-> stats.bookingRate,
     filteredCount |-> 0, totalCount |-> totalCount, usedSegmentation |-> FALSE]

SegmentationFallsBack(stats, dataset, monthlyRent) ==
    IF ~stats.available \/ dataset = NULL \/ Len(dataset.rows) = 0
    THEN Fallback(stats, 0)
    ELSE LET filteredDataset ==
                 filterDatasetByPrice(dataset, MinPrice(monthlyRent), MaxPrice(monthlyRent))
         IN  IF Len(filteredDataset.rows) = 0
             THEN Fallback(stats, Len(dataset.rows))
             ELSE [segmentedAOR |-> calculateSegmentedAOR(filteredDataset),
                   globalAOR |-> stats.bookingRate,
                   filteredCount |-> Len(filteredDataset.rows),
                   totalCount |-> Len(dataset.rows),
                   usedSegmentation |-> TRUE]

SegmentationNullWhenEmpty(stats, dataset, monthlyRent) ==
    IF ~stats.available THEN NULL
    ELSE IF dataset = NULL \/ Len(dataset.rows) = 0 THEN NULL
    ELSE LET filteredDataset ==
                 filterDatasetByPrice(dataset, MinPrice(monthlyRent), MaxPrice(monthlyRent))
         IN  IF Len(filteredDataset.rows) = 0
             THEN Fallback(stats, Len(dataset.rows))
             ELSE [segmentedAOR |-> calculateSegmentedAOR(filteredDataset),
                   globalAOR |-> stats.bookingRate,
                   filteredCount |-> Len(filteredDataset.rows),
                   totalCount |-> Len(dataset.rows),
                   usedSegmentation |-> TRUE]

\* calculateSegmentedOccupancyRate after `await getDatasetStats()`: stats is
\* the awaited value, dataset is cachedDataset as it is when the function
\* resumes (estimatedDailyPrice and priceRange are functions of monthlyRent
\* alone and are left out of the result)
Segmentation(stats, dataset, monthlyRent) ==
    IF ~stats.available THEN NULL
    ELSE IF dataset = NULL \/ Len(dataset.rows) = 0 THEN Fallback(stats, 0)
    ELSE LET filteredDataset ==
                 filterDatasetByPrice(dataset, MinPrice(monthlyRent), MaxPrice(monthlyRent))
         IN  IF Len(filteredDataset.rows) = 0
             THEN Fallback(stats, Len(dataset.rows))
             ELSE [segmentedAOR |-> calculateSegmentedAOR(filteredDataset),
                   globalAOR |-> stats.bookingRate,
                   filteredCount |-> Len(filteredDataset.rows),
                   totalCount |-> Len(dataset.rows),
                   usedSegmentation |-> TRUE]

PredictionWithoutNullCheck(segmentation, monthlyRent, annualFee, year) ==
    IF segmentation = NULL THEN REJECTED
    ELSE [netMonthly |->
              roundCurrency(NetAnnualNum(monthlyRent, annualFee, commissionRate(year),
                                         segmentation.segmentedAOR),
                            100 * 12 * segmentation.segmentedAOR.d),
          adjustedMonthlyRent |->
              roundCurrency(monthlyRent * segmentation.segmentedAOR.n,
                            segmentation.segmentedAOR.d),
          bookingRate |-> segmentation.segmentedAOR,
          segmentedAOR |-> segmentation.segmentedAOR,
          globalAOR |-> segmentation.globalAOR,
          filteredCount |-> segmentation.filteredCount,
          totalCount |-> segmentation.totalCount,
          usedSegmentation |-> segmentation.usedSegmentation]

PredictionAtFullOccupancy(segmentation, monthlyRent, annualFee, year) ==
    IF segmentation = NULL THEN NULL
    ELSE [netMonthly |->
              roundCurrency(NetAnnualNum(monthlyRent, annualFee, commissionRate(year), ONE),
                            100 * 12),
          adjustedMonthlyRent |->
              roundCurrency(monthlyRent * segmentation.segmentedAOR.n,
                            segmentation.segmentedAOR.d),
          bookingRate |-> segmentation.segmentedAOR,
          segmentedAOR |-> segmentation.segmentedAOR,
          globalAOR |-> segmentation.globalAOR,
          filteredCount |-> segmentation.filteredCount,
          totalCount |-> segmentation.totalCount,
          usedSegmentation |-> segmentation.usedSegmentation]

\* predictNetMonthlyIncome after `await calculateSegmentedOccupancyRate()`:
\* null, or the prediction (amounts in cents; occupancyRate * 100 and
\* bookedDaysPerMonth are multiples of bookingRate and are left out)
Prediction(segmentation, monthlyRent, annualFee, year) ==
    IF segmentation = NULL THEN NULL
    ELSE LET occupancyRate == segmentation.segmentedAOR
         IN  [netMonthly |->
                  roundCurrency(NetAnnualNum(monthlyRent, annualFee,
                                             commissionRate(year), occupancyRate),
                                100 * 12 * occupancyRate.d),
              adjustedMonthlyRent |->
                  roundCurrency(monthlyRent * occupancyRate.n, occupancyRate.d),
              bookingRate |-> occupancyRate,
              segmentedAOR |-> segmentation.segmentedAOR,
              globalAOR |-> segmentation.globalAOR,
              filteredCount |-> segmentation.filteredCount,
              totalCount |-> segmentation.totalCount,
              usedSegmentation |-> segmentation.usedSegmentation]

\* one entry pushed by the loop of predictReturnOverYears; annualNet in
\* cents, purchasePrice in euros, roi in hundredths of a percent
YearEntry(prediction, purchasePrice, year) ==
    [year |-> year,
     netMonthly |-> prediction.netMonthly,
     annualNet |-> roundCurrency(prediction.netMonthly * 12, 1),
     roi |-> IF purchasePrice > 0
             THEN roundCurrency(prediction.netMonthly * 12 * 100, purchasePrice)
             ELSE 0,
     bookingRate |-> prediction.bookingRate,
     filteredCount |-> prediction.filteredCount,
     totalCount |-> prediction.totalCount,
     usedSegmentation |-> prediction.usedSegmentation]

----------------------------------------------------------------------------
(* services/prediction.js: the invocations and their steps *)

TaskIds == 1..MaxTasks

\* task 1 may invoke any exported function, the others call getDatasetStats
\* or initializeDataset: one prediction runs beside the direct callers
Fresh(t) == tasks[t].pc = "idle"
Predictor(t) == t = 1

\* op: the exported function invoked; pc: the await it is suspended at.
\* promise, miss, callEpoch and got describe its latest getDatasetStats()
\* call: the promise returned, whether nothing was cached at the call, the
\* number of resetCache calls before it, and the value the await delivered.
\* stats is the `stats` of predictNetMonthlyIncome; segStats and segDataset
\* are the `stats` awaited and the cachedDataset read by
\* calculateSegmentedOccupancyRate; prediction is the value
\* predictNetMonthlyIncome returned to the loop of predictReturnOverYears,
\* predictions the entries pushed so far.
IdleTask ==
    [op |-> "none", pc |-> "idle", purchasePrice |-> 0, monthlyRent |-> 0,
     annualFee |-> 0, years |-> 0, year |-> 0,
     promise |-> [load |-> 0, value |-> NONE], miss |-> FALSE, callEpoch |-> 0,
     got |-> NONE, stats |-> NONE, segStats |-> NONE, segDataset |-> NONE,
     prediction |-> NONE, predictions |-> <<>>, result |-> NONE]

\* the caller is suspended on `await getDatasetStats()`
Awaiting(task, pc) ==
    [task EXCEPT !.pc = pc, !.promise = Promise, !.miss = ~StatsCached,
                 !.callEpoch = epoch, !.got = NONE]

Returned(task, value) == [task EXCEPT !.pc = "done", !.result = value]

Resumable(t, op, pc) ==
    /\ tasks[t].op = op
    /\ tasks[t].pc = pc
    /\ Settled(tasks[t].promise)

\* a direct caller of getDatasetStats()
CallGetDatasetStats(t) ==
    /\ Fresh(t)
    /\ GetDatasetStats
    /\ tasks' = [tasks EXCEPT ![t] = Awaiting([@ EXCEPT !.op = "getDatasetStats"], "stats")]

\* initializeDataset(): try { await getDatasetStats() ... } catch { log }
CallInitializeDataset(t) ==
    /\ Fresh(t)
    /\ GetDatasetStats
    /\ tasks' = [tasks EXCEPT ![t] = Awaiting([@ EXCEPT !.op = "initializeDataset"], "stats")]

CallCalculateSegmentedOccupancyRate(t, monthlyRent) ==
    /\ Fresh(t) /\ Predictor(t)
    /\ GetDatasetStats
    /\ tasks' = [tasks EXCEPT ![t] =
           Awaiting([@ EXCEPT !.op = "calculateSegmentedOccupancyRate",
                              !.monthlyRent = monthlyRent], "segStats")]

CallPredictNetMonthlyIncome(t, monthlyRent, annualFee, year) ==
    /\ Fresh(t) /\ Predictor(t)
    /\ GetDatasetStats
    /\ tasks' = [tasks EXCEPT ![t] =
           Awaiting([@ EXCEPT !.op = "predictNetMonthlyIncome",
                              !.monthlyRent = monthlyRent, !.annualFee = annualFee,
                              !.year = year], "stats")]

\* predictReturnOverYears: the loop is entered with year = 1, or left at once
CallPredictReturnOverYears(t, purchasePrice, monthlyRent, annualFee, years) ==
    /\ Fresh(t) /\ Predictor(t)
    /\ LET task == [tasks[t] EXCEPT !.op = "predictReturnOverYears",
                                    !.purchasePrice = purchasePrice,
                                    !.monthlyRent = monthlyRent,
                                    !.annualFee = annualFee,
                                    !.years = years, !.year = 1]
       IN  IF 1 <= years
           THEN /\ GetDatasetStats
                /\ tasks' = [tasks EXCEPT ![t] = Awaiting(task, "stats")]
           ELSE /\ tasks' = [tasks EXCEPT ![t] = Returned(task, [entries |-> <<>>])]
                /\ UNCHANGED <<cachedStats, cachedDataset, datasetLoaded,
                               datasetLoadingPromise, loads, epoch, syncs>>

\* the async IIFE of getDatasetStats resumes after `await getDatasetPath()`,
\* caches what it loaded and, in its finally, clears datasetLoadingPromise
LoadSettles(l) ==
    /\ l \in 1..Len(loads)
    /\ ~loads[l].settled
    /\ \E outcome \in LoadOutcomes :
          /\ cachedStats' = Loaded(outcome).stats
          /\ cachedDataset' = Loaded(outcome).dataset
          /\ loads' = [loads EXCEPT ![l].settled = TRUE,
                                    ![l].value = Loaded(outcome).value,
                                    ![l].outcome = outcome.kind]
    /\ datasetLoaded' = TRUE
    /\ datasetLoadingPromise' = 0
    /\ UNCHANGED <<epoch, syncs, tasks>>

\* getDatasetStatsSync() with nothing cached (with statistics cached it
\* returns them and changes nothing); getDatasetPathSync does not throw
GetDatasetStatsSync ==
    /\ ~StatsCached
    /\ syncs < MaxSyncs
    /\ \E outcome \in LoadOutcomes :
          /\ outcome.kind # "rejected"
          /\ cachedStats' = Loaded(outcome).stats
          /\ cachedDataset' = Loaded(outcome).dataset
    /\ datasetLoaded' = TRUE
    /\ syncs' = syncs + 1
    /\ UNCHANGED <<datasetLoadingPromise, loads, epoch, tasks>>

ResetCache ==
    /\ epoch < MaxResets
    /\ cachedStats' = NULL
    /\ cachedDataset' = NULL
    /\ datasetLoaded' = FALSE
    /\ datasetLoadingPromise' = 0
    /\ epoch' = epoch + 1
    /\ UNCHANGED <<loads, syncs, tasks>>

\* the caller of getDatasetStats() receives what the promise settled with
ResumeGetDatasetStats(t) ==
    /\ Resumable(t, "getDatasetStats", "stats")
    /\ LET stats == ValueOf(tasks[t].promise)
       IN  tasks' = [tasks EXCEPT ![t] =
               Returned([@ EXCEPT !.got = stats, !.stats = stats], stats)]
    /\ UNCHANGED <<cachedStats, cachedDataset, datasetLoaded, datasetLoadingPromise,
                   loads, epoch, syncs>>

\* initializeDataset logs the outcome, or the error it caught, and returns
ResumeInitializeDataset(t) ==
    /\ Resumable(t, "initializeDataset", "stats")
    /\ LET stats == ValueOf(tasks[t].promise)
       IN  tasks' = [tasks EXCEPT ![t] =
               Returned([@ EXCEPT !.got = stats, !.stats = stats], [returned |-> TRUE])]
    /\ UNCHANGED <<cachedStats, cachedDataset, datasetLoaded, datasetLoadingPromise,
                   loads, epoch, syncs>>

\* calculateSegmentedOccupancyRate, called directly, resumes and returns (a
\* rejected promise makes an await throw and the invocation reject)
ResumeCalculateSegmentedOccupancyRate(t) ==
    /\ Resumable(t, "calculateSegmentedOccupancyRate", "segStats")
    /\ LET stats == ValueOf(tasks[t].promise)
       IN  tasks' = [tasks EXCEPT ![t] =
               IF stats = REJECTED
               THEN Returned([@ EXCEPT !.got = stats], REJECTED)
               ELSE Returned([@ EXCEPT !.got = stats, !.segStats = stats,
                                       !.segDataset = cachedDataset],
                             Segmentation(stats, cachedDataset, tasks[t].monthlyRent))]
    /\ UNCHANGED <<cachedStats, cachedDataset, datasetLoaded, datasetLoadingPromise,
                   loads, epoch, syncs>>

Predicting(t) == tasks[t].op \in {"predictNetMonthlyIncome", "predictReturnOverYears"}

\* predictNetMonthlyIncome returns `prediction` (or throws): to its caller,
\* or to the loop of predictReturnOverYears, which awaits it
PredictionReturned(task, prediction) ==
    IF task.op = "predictNetMonthlyIncome" \/ prediction = REJECTED
    THEN Returned([task EXCEPT !.prediction = prediction], prediction)
    ELSE [task EXCEPT !.pc = "prediction", !.prediction = prediction]

\* predictNetMonthlyIncome resumes with the statistics: null when they are
\* unavailable, else it calls calculateSegmentedOccupancyRate, which calls
\* getDatasetStats() again and awaits it
ResumePredictStats(t) ==
    /\ Predicting(t) /\ tasks[t].pc = "stats"
    /\ Settled(tasks[t].promise)
    /\ LET stats == ValueOf(tasks[t].promise)
           task == [tasks[t] EXCEPT !.got = stats, !.stats = stats]
       IN  IF stats = REJECTED
           THEN /\ tasks' = [tasks EXCEPT ![t] = Returned(task, REJECTED)]
                /\ UNCHANGED <<cachedStats, cachedDataset, datasetLoaded,
                               datasetLoadingPromise, loads, epoch, syncs>>
           ELSE IF ~stats.available
           THEN /\ tasks' = [tasks EXCEPT ![t] = PredictionReturned(task, NULL)]
                /\ UNCHANGED <<cachedStats, cachedDataset, datasetLoaded,
                               datasetLoadingPromise, loads, epoch, syncs>>
           ELSE /\ GetDatasetStats
                /\ tasks' = [tasks EXCEPT ![t] = Awaiting(task, "segStats")]

\* calculateSegmentedOccupancyRate resumes inside predictNetMonthlyIncome,
\* which computes the prediction from the segmentation and returns it
ResumePredictSegmentation(t) ==
    /\ Predicting(t) /\ tasks[t].pc = "segStats"
    /\ Settled(tasks[t].promise)
    /\ LET stats == ValueOf(tasks[t].promise)
           task == [tasks[t] EXCEPT !.got = stats, !.segStats = stats,
                                    !.segDataset = cachedDataset]
       IN  tasks' = [tasks EXCEPT ![t] =
               IF stats = REJECTED
               THEN Returned(task, REJECTED)
               ELSE PredictionReturned(task,
                        Prediction(Segmentation(stats, cachedDataset, task.monthlyRent),
                                   task.monthlyRent, task.annualFee, task.year))]
    /\ UNCHANGED <<cachedStats, cachedDataset, datasetLoaded, datasetLoadingPromise,
                   loads, epoch, syncs>>

PushedSkippingNull(predictions, prediction, purchasePrice, year) ==
    IF prediction = NULL THEN [entries |-> predictions]
    ELSE [entries |-> Append(predictions, YearEntry(prediction, purchasePrice, year))]

\* the loop body of predictReturnOverYears after its await: null, or the
\* predictions with this year's entry pushed
Pushed(predictions, prediction, purchasePrice, year) ==
    IF prediction = NULL THEN NULL
    ELSE [entries |-> Append(predictions, YearEntry(prediction, purchasePrice, year))]

\* predictReturnOverYears resumes with a year's prediction: returns null,
\* returns the full sequence, or starts the next year
ResumePredictReturnOverYears(t) ==
    /\ tasks[t].op = "predictReturnOverYears" /\ tasks[t].pc = "prediction"
    /\ LET task == tasks[t]
           pushed == Pushed(task.predictions, task.prediction, task.purchasePrice, task.year)
       IN  IF pushed = NULL
           THEN /\ tasks' = [tasks EXCEPT ![t] = Returned(task, NULL)]
                /\ UNCHANGED <<cachedStats, cachedDataset, datasetLoaded,
                               datasetLoadingPromise, loads, epoch, syncs>>
           ELSE IF task.year + 1 <= task.years
           THEN /\ GetDatasetStats
                /\ tasks' = [tasks EXCEPT ![t] =
                       Awaiting([task EXCEPT !.predictions = pushed.entries,
                                             !.year = task.year + 1], "stats")]
           ELSE /\ tasks' = [tasks EXCEPT ![t] =
                       Returned([task EXCEPT !.predictions = pushed.entries,
                                             !.year = task.year + 1], pushed)]
                /\ UNCHANGED <<cachedStats, cachedDataset, datasetLoaded,
                               datasetLoadingPromise, loads, epoch, syncs>>

----------------------------------------------------------------------------
(* The dataset cache and its callers *)

CacheInit ==
    /\ cachedStats = NULL
    /\ cachedDataset = NULL
    /\ datasetLoaded = FALSE
    /\ datasetLoadingPromise = 0
    /\ loads = <<>>
    /\ epoch = 0
    /\ syncs = 0
    /\ tasks = [t \in TaskIds |-> IdleTask]

Init ==
    /\ CacheInit
    /\ file = NONE /\ now = 0 /\ acq = NONE
    /\ calc = NONE
    /\ store = <<>> /\ req = NONE

Next ==
    \/ \E t \in TaskIds : CallGetDatasetStats(t) /\ UNCHANGED <<acqVars, calc, webVars>>
    \/ \E t \in TaskIds : CallInitializeDataset(t) /\ UNCHANGED <<acqVars, calc, webVars>>
    \/ \E t \in TaskIds, r \in Rents :
          CallCalculateSegmentedOccupancyRate(t, r) /\ UNCHANGED <<acqVars, calc, webVars>>
    \/ \E t \in TaskIds, r \in Rents, f \in Fees, y \in 1..MaxYears :
          CallPredictNetMonthlyIncome(t, r, f, y) /\ UNCHANGED <<acqVars, calc, webVars>>
    \/ \E t \in TaskIds, p \in PurchasePrices, r \in Rents, f \in Fees, n \in 0..MaxYears :
          CallPredictReturnOverYears(t, p, r, f, n) /\ UNCHANGED <<acqVars, calc, webVars>>
    \/ \E l \in 1..MaxLoads : LoadSettles(l) /\ UNCHANGED <<acqVars, calc, webVars>>
    \/ GetDatasetStatsSync /\ UNCHANGED <<acqVars, calc, webVars>>
    \/ ResetCache /\ UNCHANGED <<acqVars, calc, webVars>>
    \/ \E t \in TaskIds : ResumeGetDatasetStats(t) /\ UNCHANGED <<acqVars, calc, webVars>>
    \/ \E t \in TaskIds : ResumeInitializeDataset(t) /\ UNCHANGED <<acqVars, calc, webVars>>
    \/ \E t \in TaskIds :
          ResumeCalculateSegmentedOccupancyRate(t) /\ UNCHANGED <<acqVars, calc, webVars>>
    \/ \E t \in TaskIds : ResumePredictStats(t) /\ UNCHANGED <<acqVars, calc, webVars>>
    \/ \E t \in TaskIds : ResumePredictSegmentation(t) /\ UNCHANGED <<acqVars, calc, webVars>>
    \/ \E t \in TaskIds :
          ResumePredictReturnOverYears(t) /\ UNCHANGED <<acqVars, calc, webVars>>

Spec == Init /\ [][Next]_vars

----------------------------------------------------------------------------
(* services/dataLoader.js: ensureDataset and downloadDataset *)

\* The local dataset file is NONE (absent) or [size, mtime, csv]: its length,
\* its modification time in ms and whether its first bytes hold a comma or
\* a newline.  PreviousCopy is a dataset written at time 0.
EmptyFile == [size |-> 0, mtime |-> 0, csv |-> FALSE]
PreviousCopy == [size |-> 2, mtime |-> 0, csv |-> TRUE]

\* the clock advances by a millisecond or by half the cache duration
HalfDay == DATASET_CONFIG.CACHE_DURATION \div 2
Ticks == {1, HalfDay}

\* `const maxAttempts = 3` of downloadDataset
maxAttempts == 3

\* what https.get delivers: a redirect with a location, an HTML page, another
\* status than 200, a 200 whose body is a CSV, is empty or holds neither a
\* comma nor a newline, or a request error
Responses == {"redirect", "html", "status", "csv", "empty", "notcsv", "error"}

Body(kind) ==
    IF kind = "csv" THEN [size |-> 3, mtime |-> now, csv |-> TRUE]
    ELSE IF kind = "notcsv" THEN [size |-> 1, mtime |-> now, csv |-> FALSE]
    ELSE [size |-> 0, mtime |-> now, csv |-> FALSE]

needsUpdateAtLeast(f, t) ==
    IF f = NONE THEN TRUE
    ELSE t - f.mtime >= DATASET_CONFIG.CACHE_DURATION

\* needsUpdate(filePath) at time t, f being the file at filePath
needsUpdate(f, t) ==
    IF f = NONE THEN TRUE
    ELSE t - f.mtime > DATASET_CONFIG.CACHE_DURATION

\* The steps below work on st = [acq, file].  acq is the ensureDataset call:
\*   pc       "request" (an https.get is in flight), "retry" (the setTimeout
\*            of the error handler is pending), "settled" (the download
\*            promise is settled, ensureDataset not yet resumed), "crashed"
\*            (an event handler threw; the promise is never settled), "done"
\*   stream   the write stream of downloadDataset: "none", "pending" (created,
\*            not opened), "linked" (the path names the file it opened),
\*            "unlinked" (the file it opened was removed)
\*   download "none", "pending", "resolved", "rejected"
\*   result   "none", "path" (returned filePath), "thrown"
\*   before, calledAt, deletedEmpty, attempted, requests: the file and the
\*            time at the call, whether the zero-length file was deleted,
\*            whether downloadDataset was called, the https.get calls made
\*   via      which downloadFile call issued the request in flight: "first"
\*            (downloadFile(url)), "followed" (a redirect or a link of an
\*            HTML page), "retried" (downloadFile(url, true) of the timer)
\*   last     the response the latest request received, "none" before it

\* `if (fs.existsSync(filePath)) fs.unlinkSync(filePath)`
Unlink(st) ==
    [acq |-> [st.acq EXCEPT !.stream = IF @ = "linked" THEN "unlinked" ELSE @],
     file |-> NONE]

Reject(st) == [st EXCEPT !.acq.download = "rejected", !.acq.pc = "settled"]

\* the write stream opens filePath with flag 'w': creates or truncates it
Opened(st) ==
    IF st.acq.stream = "pending"
    THEN [acq |-> [st.acq EXCEPT !.stream = "linked"],
          file |-> [size |-> 0, mtime |-> now, csv |-> FALSE]]
    ELSE st

\* downloadFile(downloadUrl, isRetry)
downloadFile(st) ==
    LET counted == [st EXCEPT !.acq.downloadAttempts = @ + 1]
    IN  IF counted.acq.downloadAttempts > maxAttempts
        THEN Reject(Unlink(counted))
        ELSE [counted EXCEPT !.acq.requests = @ + 1, !.acq.pc = "request"]

\* the callback of https.get and its 'finish' handler, and the 'error' handler
Responded(got, kind) ==
    LET st == [got EXCEPT !.acq.last = kind]
    IN
    IF kind \in {"redirect", "html"} THEN downloadFile([st EXCEPT !.acq.via = "followed"])
    ELSE IF kind = "status" THEN Reject(Unlink(st))
    ELSE IF kind = "error"
    THEN IF st.acq.downloadAttempts < maxAttempts
         THEN [Unlink(st) EXCEPT !.acq.pc = "retry"]
         ELSE Reject(Unlink(st))
    ELSE LET open == Opened(st)
         IN  IF open.acq.stream = "unlinked"
             THEN \* fs.statSync(filePath) throws inside the 'finish' handler
                  [open EXCEPT !.acq.pc = "crashed"]
             ELSE LET written == [open EXCEPT !.file = Body(kind)]
                  IN  IF kind = "csv"
                      THEN [written EXCEPT !.acq.download = "resolved",
                                           !.acq.pc = "settled"]
                      ELSE Reject(Unlink(written))

\* ensureDataset after `await downloadDataset(filePath)`: the rest of the try
\* block, or the catch block
Ensured(st) ==
    IF st.acq.download = "resolved" /\ ~(st.file # NONE /\ st.file.size = 0)
    THEN [st EXCEPT !.acq.result = "path", !.acq.pc = "done"]
    ELSE LET caught == IF st.acq.download = "resolved" THEN Unlink(st) ELSE st
         IN  IF caught.file # NONE /\ caught.file.size > 0
             THEN [caught EXCEPT !.acq.result = "path", !.acq.pc = "done"]
             ELSE [Unlink(caught) EXCEPT !.acq.result = "thrown", !.acq.pc = "done"]

\* ensureDataset(filePath) up to its first await, or to its return
CallEnsureDataset ==
    /\ IF acq = NONE THEN TRUE ELSE acq.pc = "done" /\ acq.stream # "pending"
    /\ LET deletes == file # NONE /\ file.size = 0
           checked == IF deletes THEN NONE ELSE file
           call == [pc |-> "done", stream |-> "none", download |-> "none",
                    result |-> "path", before |-> file, calledAt |-> now,
                    deletedEmpty |-> deletes, attempted |-> FALSE,
                    downloadAttempts |-> 0, requests |-> 0,
                    via |-> "none", last |-> "none"]
           st == IF needsUpdate(checked, now)
                 THEN downloadFile([acq |-> [call EXCEPT !.attempted = TRUE,
                                                         !.via = "first",
                                                         !.stream = "pending",
                                                         !.download = "pending",
                                                         !.result = "none"],
                                    file |-> checked])
                 ELSE [acq |-> call, file |-> checked]
       IN  acq' = st.acq /\ file' = st.file
    /\ UNCHANGED now

StreamOpens ==
    /\ acq # NONE
    /\ acq.stream = "pending"
    /\ LET st == Opened([acq |-> acq, file |-> file])
       IN  acq' = st.acq /\ file' = st.file
    /\ UNCHANGED now

Response(kind) ==
    /\ acq # NONE
    /\ acq.pc = "request"
    /\ LET st == Responded([acq |-> acq, file |-> file], kind)
       IN  acq' = st.acq /\ file' = st.file
    /\ UNCHANGED now

RetryTimer ==
    /\ acq # NONE
    /\ acq.pc = "retry"
    /\ LET st == downloadFile([acq |-> [acq EXCEPT !.via = "retried"], file |-> file])
       IN  acq' = st.acq /\ file' = st.file
    /\ UNCHANGED now

ResumeEnsureDataset ==
    /\ acq # NONE
    /\ acq.pc = "settled"
    /\ LET st == Ensured([acq |-> acq, file |-> file])
       IN  acq' = st.acq /\ file' = st.file
    /\ UNCHANGED now

Tick(d) ==
    /\ now + d <= MaxHalfDays * HalfDay + MaxOddMs
    /\ (now % HalfDay) + (d % HalfDay) <= MaxOddMs
    /\ now' = now + d
    /\ UNCHANGED <<file, acq>>

InitAcq ==
    /\ CacheInit
    /\ calc = NONE
    /\ store = <<>> /\ req = NONE
    /\ now = 0
    /\ acq = NONE
    /\ file \in {NONE, EmptyFile, PreviousCopy}

NextAcq ==
    \/ CallEnsureDataset /\ UNCHANGED <<cacheVars, calc, webVars>>
    \/ StreamOpens /\ UNCHANGED <<cacheVars, calc, webVars>>
    \/ \E kind \in Responses : Response(kind) /\ UNCHANGED <<cacheVars, calc, webVars>>
    \/ RetryTimer /\ UNCHANGED <<cacheVars, calc, webVars>>
    \/ ResumeEnsureDataset /\ UNCHANGED <<cacheVars, calc, webVars>>
    \/ \E d \in Ticks : Tick(d) /\ UNCHANGED <<cacheVars, calc, webVars>>

SpecAcq == InitAcq /\ [][NextAcq]_vars

\* every request is answered or fails, every timer fires, the write stream
\* opens and the awaiting ensureDataset is resumed
SpecAcqLive ==
    /\ SpecAcq
    /\ WF_vars(StreamOpens /\ UNCHANGED <<cacheVars, calc, webVars>>)
    /\ WF_vars(\E kind \in Responses : Response(kind) /\ UNCHANGED <<cacheVars, calc, webVars>>)
    /\ WF_vars(RetryTimer /\ UNCHANGED <<cacheVars, calc, webVars>>)
    /\ WF_vars(ResumeEnsureDataset /\ UNCHANGED <<cacheVars, calc, webVars>>)

----------------------------------------------------------------------------
(* services/calculator.js evaluated on its own *)

\* arguments: rents and fees in cents, purchase prices in euros; year and
\* years also take values outside their intended range
CalcPrices == {-100000, 0, 150000, 200000}
CalcRents == {-1, 0, 1, 100000, 123457, 150000}
CalcFees == {-1, 0, 3, 6, 99999, 100000, 120000}
CalcYears == -1..MaxYear
CalcYearsArgs == {[n |-> k, d |-> 1] : k \in -1..MaxCalcYears} \cup {[n |-> 3, d |-> 2]}
Occupancies == {ZERO, Rate(1, 2), ONE}

EvalNetMonthlyIncome ==
    /\ ~calc.evaluated
    /\ calc' = [calc EXCEPT !.evaluated = TRUE,
                            !.netMonthly =
                                netMonthlyIncome(calc.monthlyRent, calc.annualFee, calc.year)]

EvalReturnOverYears ==
    /\ calc.returns = NONE
    /\ calc' = [calc EXCEPT !.returns =
                   returnOverYears(calc.purchasePrice, calc.monthlyRent,
                                   calc.annualFee, calc.years)]

\* the synchronous part of predictNetMonthlyIncome and the loop body of
\* predictReturnOverYears, for a segmentation whose segmentedAOR is occ
EvalPredictedEntry(occ) ==
    /\ calc.predicted = NONE
    /\ LET prediction == Prediction(Fallback([bookingRate |-> occ], 0),
                                    calc.monthlyRent, calc.annualFee, calc.year)
       IN  calc' = [calc EXCEPT !.predicted =
                       [occupancy |-> occ,
                        prediction |-> prediction,
                        entry |-> YearEntry(prediction, calc.purchasePrice, calc.year)]]

InitFormula ==
    /\ CacheInit
    /\ file = NONE /\ now = 0 /\ acq = NONE
    /\ store = <<>> /\ req = NONE
    /\ calc \in [purchasePrice : CalcPrices, monthlyRent : CalcRents,
                 annualFee : CalcFees, year : CalcYears, years : CalcYearsArgs,
                 evaluated : {FALSE}, netMonthly : {0},
                 returns : {NONE}, predicted : {NONE}]

NextFormula ==
    \/ EvalNetMonthlyIncome /\ UNCHANGED <<cacheVars, acqVars, webVars>>
    \/ EvalReturnOverYears /\ UNCHANGED <<cacheVars, acqVars, webVars>>
    \/ \E occ \in Occupancies :
          EvalPredictedEntry(occ) /\ UNCHANGED <<cacheVars, acqVars, webVars>>

SpecFormula == InitFormula /\ [][NextFormula]_vars

----------------------------------------------------------------------------
(* services/dataLoader.js: the segmentation functions on their own *)

\* rows as loadDataset casts them: listing_price (in cents) is a number,
\* is_booked an integer; the prices lie below, on, inside and above the
\* bands of PriceBands
SegmentRecords ==
    [listing_price : {0, 1699, 1700, 2000, 2300, 2301}, is_booked : {0, 1, 2}]

\* the `dataset` argument: an array of rows, or null
SegmentDatasets ==
    {[rows |-> rows] : rows \in UNION {[1..k -> SegmentRecords] : k \in 0..MaxRecords}}
    \cup {NULL}

\* the minPrice and maxPrice arguments
PriceBands ==
    {<<Rate(1700, 1), Rate(2300, 1)>>, <<Rate(2000, 1), Rate(2000, 1)>>,
     <<Rate(2300, 1), Rate(1700, 1)>>, <<Rate(0, 1), Rate(3399, 2)>>,
     <<Rate(3401, 2), Rate(4601, 2)>>}

EvalFilterDatasetByPrice ==
    /\ calc.filtered = NONE
    /\ calc' = [calc EXCEPT !.filtered =
                    filterDatasetByPrice(calc.dataset, calc.minPrice, calc.maxPrice)]

\* calculateSegmentedAOR applied to the dataset as given, or to the
\* filtered rows once they exist
EvalCalculateSegmentedAOR ==
    /\ calc.aor = NONE
    /\ \E filteredDataset \in {calc.dataset, calc.filtered} \ {NONE} :
           calc' = [calc EXCEPT !.aor =
                        [of |-> filteredDataset,
                         rate |-> calculateSegmentedAOR(filteredDataset)]]

InitSegment ==
    /\ CacheInit
    /\ file = NONE /\ now = 0 /\ acq = NONE
    /\ \E dataset \in SegmentDatasets, band \in PriceBands :
           calc = [dataset |-> dataset, minPrice |-> band[1], maxPrice |-> band[2],
                   filtered |-> NONE, aor |-> NONE]
    /\ store = <<>> /\ req = NONE

NextSegment ==
    \/ EvalFilterDatasetByPrice /\ UNCHANGED <<cacheVars, acqVars, webVars>>
    \/ EvalCalculateSegmentedAOR /\ UNCHANGED <<cacheVars, acqVars, webVars>>

SpecSegment == InitSegment /\ [][NextSegment]_vars

----------------------------------------------------------------------------
(* services/dataLoader.js: the cast of loadDataset *)

\* A CSV field after trimming is a sequence of characters; exponents,
\* "Infinity" and hexadecimal prefixes are outside this alphabet.
Chars == {"0", "1", "2", "-", ".", "a"}
Texts == UNION {[1..k -> Chars] : k \in 0..MaxText}
Columns == {"surface_m2", "bedrooms", "location_score", "listing_price", "is_booked", "date"}

IsDigit(c) == c \in {"0", "1", "2"}
DigitValue(c) == IF c = "0" THEN 0 ELSE IF c = "1" THEN 1 ELSE 2

\* the longest prefix of digits of text, and its value read from n on
RECURSIVE DigitsPrefix(_)
DigitsPrefix(text) ==
    IF text = <<>> THEN <<>>
    ELSE IF IsDigit(Head(text)) THEN <<Head(text)>> \o DigitsPrefix(Tail(text))
    ELSE <<>>

RECURSIVE DigitsValue(_, _)
DigitsValue(digits, n) ==
    IF digits = <<>> THEN n
    ELSE DigitsValue(Tail(digits), 10 * n + DigitValue(Head(digits)))

RECURSIVE Pow10(_)
Pow10(k) == IF k = 0 THEN 1 ELSE 10 * Pow10(k - 1)

Drop(text, k) == SubSeq(text, k + 1, Len(text))

NaN == [nan |-> TRUE, n |-> 0, d |-> 1]
Number(n, d) == [nan |-> FALSE, n |-> n, d |-> d]

\* parseInt(value, 10): an optional sign and the digits that follow it
parseInt(text) ==
    LET negative == text # <<>> /\ Head(text) = "-"
        rest == IF negative THEN Tail(text) ELSE text
        digits == DigitsPrefix(rest)
    IN  IF digits = <<>> THEN NaN
        ELSE Number((IF negative THEN -1 ELSE 1) * DigitsValue(digits, 0), 1)

\* parseFloat(value): an optional sign, digits, and a point with more
\* digits; at least one digit on either side of the point
parseFloat(text) ==
    LET negative == text # <<>> /\ Head(text) = "-"
        rest == IF negative THEN Tail(text) ELSE text
        whole == DigitsPrefix(rest)
        after == Drop(rest, Len(whole))
        fraction == IF after # <<>> /\ Head(after) = "."
                    THEN DigitsPrefix(Tail(after)) ELSE <<>>
    IN  IF whole = <<>> /\ fraction = <<>> THEN NaN
        ELSE Number((IF negative THEN -1 ELSE 1)
                        * DigitsValue(fraction, DigitsValue(whole, 0)),
                    Pow10(Len(fraction)))

\* `x || 0` for a number x
OrZero(x) == IF x.nan \/ x.n = 0 THEN Number(0, 1) ELSE x

\* the cast option of parse(): [number |-> ...] or the text unchanged
cast(value, column) ==
    IF column \in {"surface_m2", "bedrooms", "location_score", "listing_price"}
    THEN [number |-> OrZero(parseFloat(value))]
    ELSE IF column = "is_booked"
    THEN [number |-> OrZero(parseInt(value))]
    ELSE [text |-> value]

EvalCast ==
    /\ calc.cast = NONE
    /\ calc' = [calc EXCEPT !.cast = cast(calc.value, calc.column)]

InitCast ==
    /\ CacheInit
    /\ file = NONE /\ now = 0 /\ acq = NONE
    /\ \E value \in Texts, column \in Columns :
           calc = [value |-> value, column |-> column, cast |-> NONE]
    /\ store = <<>> /\ req = NONE

NextCast == EvalCast /\ UNCHANGED <<cacheVars, acqVars, webVars>>

SpecCast == InitCast /\ [][NextCast]_vars

----------------------------------------------------------------------------
(* controllers/simulationController.js: processSimulation *)

\* The submitted form: the three amounts as numbers (rents and fees in
\* cents, the purchase price in euros) and wellFormed, which says that every
\* field is present and numeric and that the email address is valid.
Bodies ==
    [purchasePrice : {-100000, 0, 200000}, monthlyRent : {-1, 0, 150000},
     annualFee : {-1, 0, 100000}, wellFormed : BOOLEAN]

\* the fields validateSimulation reports: isFloat({ min: 0.01 }) for the
\* purchase price, isFloat({ min: 0 }) for the rent and the fee
validationResult(body) ==
    (IF body.wellFormed THEN {} ELSE {"form"})
    \cup (IF body.purchasePrice * 100 >= 1 THEN {} ELSE {"purchasePrice"})
    \cup (IF body.monthlyRent >= 0 THEN {} ELSE {"monthlyRent"})
    \cup (IF body.annualFee >= 0 THEN {} ELSE {"annualFee"})

\* the `3` processSimulation passes as `years`
SimulatedYears == [n |-> 3, d |-> 1]

\* new Simulation({ purchasePrice, monthlyRent, annualFee, email, results })
Document(body, results) ==
    [purchasePrice |-> body.purchasePrice, monthlyRent |-> body.monthlyRent,
     annualFee |-> body.annualFee, results |-> results]

ProcessedUnvalidated(body) ==
    [body |-> body, errors |-> {},
     results |-> returnOverYearsUnchecked(body.purchasePrice, body.monthlyRent,
                                          body.annualFee, SimulatedYears),
     pc |-> "saving", view |-> "none"]

ProcessedWhenDatasetLoaded(body) ==
    LET errors == validationResult(body)
        results == returnOverYears(body.purchasePrice, body.monthlyRent,
                                   body.annualFee, SimulatedYears)
    IN  IF errors # {}
        THEN [body |-> body, errors |-> errors, results |-> NONE,
              pc |-> "done", view |-> "index"]
        ELSE IF ~datasetLoaded
        THEN [body |-> body, errors |-> {}, results |-> ValidationError("dataset"),
              pc |-> "done", view |-> "index"]
        ELSE [body |-> body, errors |-> {}, results |-> results,
              pc |-> "saving", view |-> "none"]

\* processSimulation up to `await simulation.save()`, or to the view it
\* renders without saving
Processed(body) ==
    LET errors == validationResult(body)
        results == returnOverYears(body.purchasePrice, body.monthlyRent,
                                   body.annualFee, SimulatedYears)
    IN  IF errors # {}
        THEN [body |-> body, errors |-> errors, results |-> NONE,
              pc |-> "done", view |-> "index"]
        ELSE IF "error" \in DOMAIN results
        THEN [body |-> body, errors |-> {}, results |-> results,
              pc |-> "done", view |-> "index"]
        ELSE [body |-> body, errors |-> {}, results |-> results,
              pc |-> "saving", view |-> "none"]

ProcessSimulation(body) ==
    /\ IF req = NONE THEN TRUE ELSE req.pc = "done"
    /\ Len(store) < MaxStored
    /\ req' = Processed(body)
    /\ UNCHANGED store

\* simulation.save() is fulfilled, or rejected and caught
SaveSettles(saved) ==
    /\ req # NONE
    /\ req.pc = "saving"
    /\ IF saved
       THEN /\ store' = Append(store, Document(req.body, req.results.entries))
            /\ req' = [req EXCEPT !.pc = "done", !.view = "results"]
       ELSE /\ store' = store
            /\ req' = [req EXCEPT !.pc = "done", !.view = "index"]

InitSim ==
    /\ CacheInit
    /\ file = NONE /\ now = 0 /\ acq = NONE
    /\ calc = NONE
    /\ store = <<>> /\ req = NONE

NextSim ==
    \/ \E body \in Bodies : ProcessSimulation(body) /\ UNCHANGED <<cacheVars, acqVars, calc>>
    \/ \E saved \in BOOLEAN : SaveSettles(saved) /\ UNCHANGED <<cacheVars, acqVars, calc>>

SpecSim == InitSim /\ [][NextSim]_vars

----------------------------------------------------------------------------
(* middleware/pagination.js and controllers/adminController.js: GET
   /admin/simulations without an email filter *)

PAGINATION == [DEFAULT_PAGE |-> 1, DEFAULT_LIMIT |-> 10, MAX_LIMIT |-> 100]

\* req.query: `page` and `limit` are integers when they are given
Queries ==
    LET pages == 0..MaxPage
        limits == {0, 1, 7, 20, PAGINATION.MAX_LIMIT, PAGINATION.MAX_LIMIT + 1}
    IN  {[page |-> page, limit |-> limit] : page \in pages, limit \in limits}
        \cup {[page |-> page] : page \in pages}
        \cup {[limit |-> limit] : limit \in limits}
        \cup {<<>>}

\* validatePagination: both parameters are optional
validatePagination(query) ==
    (IF "page" \in DOMAIN query
     THEN IF query.page >= 1 THEN {} ELSE {"page"}
     ELSE {})
    \cup (IF "limit" \in DOMAIN query
          THEN IF query.limit >= 1 /\ query.limit <= PAGINATION.MAX_LIMIT
               THEN {} ELSE {"limit"}
          ELSE {})

Min(a, b) == IF a <= b THEN a ELSE b
Max(a, b) == IF a >= b THEN a ELSE b

\* parseInt(value) || fallback
ParsedOr(query, name, fallback) ==
    IF name \in DOMAIN query
    THEN IF query[name] = 0 THEN fallback ELSE query[name]
    ELSE fallback

\* req.pagination as parsePagination sets it
parsePagination(query) ==
    LET page == Max(1, ParsedOr(query, "page", PAGINATION.DEFAULT_PAGE))
        limit == Min(PAGINATION.MAX_LIMIT,
                     Max(1, ParsedOr(query, "limit", PAGINATION.DEFAULT_LIMIT)))
    IN  [page |-> page, limit |-> limit, skip |-> (page - 1) * limit]

\* the pagination object of the 400 page and of the controller's catch
DefaultPagination ==
    [currentPage |-> PAGINATION.DEFAULT_PAGE, totalPages |-> 0, total |-> 0,
     limit |-> PAGINATION.DEFAULT_LIMIT, hasNext |-> FALSE, hasPrev |-> FALSE]

\* the pagination object listSimulations renders
Pagination(page, limit, total) ==
    LET totalPages == MathCeil(total, limit)
    IN  [currentPage |-> page, totalPages |-> totalPages, total |-> total,
         limit |-> limit, hasNext |-> page < totalPages, hasPrev |-> page > 1]

\* the middleware chain and listSimulations up to its await
GetSimulations(query) ==
    /\ IF req = NONE THEN TRUE ELSE req.pc = "done"
    /\ req' = IF validatePagination(query) # {}
              THEN [query |-> query, pc |-> "done", status |-> 400,
                    pagination |-> DefaultPagination]
              ELSE [query |-> query, pc |-> "querying", status |-> 0,
                    pagination |-> parsePagination(query)]
    /\ UNCHANGED store

\* Promise.all([countDocuments, find]) is fulfilled, or rejected and caught
QuerySettles(fulfilled) ==
    /\ req # NONE
    /\ req.pc = "querying"
    /\ req' = IF fulfilled
              THEN [req EXCEPT !.pc = "done", !.status = 200,
                        !.pagination = Pagination(req.pagination.page,
                                                  req.pagination.limit, Len(store))]
              ELSE [req EXCEPT !.pc = "done", !.status = 500,
                        !.pagination = DefaultPagination]
    /\ UNCHANGED store

InitPage ==
    /\ CacheInit
    /\ file = NONE /\ now = 0 /\ acq = NONE
    /\ calc = NONE
    /\ \E total \in 0..MaxTotal : store = [i \in 1..total |-> [id |-> i]]
    /\ req = NONE

NextPage ==
    \/ \E query \in Queries : GetSimulations(query) /\ UNCHANGED <<cacheVars, acqVars, calc>>
    \/ \E fulfilled \in BOOLEAN : QuerySettles(fulfilled) /\ UNCHANGED <<cacheVars, acqVars, calc>>

SpecPage == InitPage /\ [][NextPage]_vars

----------------------------------------------------------------------------
(* Submissions beside the start-up load of the dataset *)

\* one form that passes validation and one that does not
SubmittedBodies ==
    {[purchasePrice |-> 200000, monthlyRent |-> 150000, annualFee |-> 100000,
      wellFormed |-> TRUE],
     [purchasePrice |-> 0, monthlyRent |-> 150000, annualFee |-> 100000,
      wellFormed |-> TRUE]}

NextSubmit ==
    \/ \E t \in TaskIds : CallInitializeDataset(t) /\ UNCHANGED <<acqVars, calc, webVars>>
    \/ \E l \in 1..MaxLoads : LoadSettles(l) /\ UNCHANGED <<acqVars, calc, webVars>>
    \/ ResetCache /\ UNCHANGED <<acqVars, calc, webVars>>
    \/ \E t \in TaskIds : ResumeInitializeDataset(t) /\ UNCHANGED <<acqVars, calc, webVars>>
    \/ \E body \in SubmittedBodies :
          ProcessSimulation(body) /\ UNCHANGED <<cacheVars, acqVars, calc>>
    \/ \E saved \in BOOLEAN : SaveSettles(saved) /\ UNCHANGED <<cacheVars, acqVars, calc>>

SpecSubmit == Init /\ [][NextSubmit]_vars

----------------------------------------------------------------------------
(* Properties of the dataset cache and its callers *)

Called(t) == tasks[t].pc # "idle" /\ tasks[t].op # "none"
Done(t, op) == tasks[t].op = op /\ tasks[t].pc = "done"
LoadsOfEpoch(e) == {l \in 1..Len(loads) : loads[l].epoch = e}
IsStats(v) == DOMAIN v = DOMAIN EmptyStats
InUnit(rate) == rate.d > 0 /\ 0 <= rate.n /\ rate.n <= rate.d

\* the booking rate of a whole cached dataset: count(is_booked = 1) / count(all)
WholeRate(dataset) ==
    IF dataset = NULL \/ dataset = NONE THEN ZERO
    ELSE IF Len(dataset.rows) = 0 THEN ZERO
    ELSE Rate(CountBooked(dataset.rows), Len(dataset.rows))

\* the rows of a cached dataset that lie inside the price band of monthlyRent
InBand(dataset, monthlyRent) ==
    IF dataset = NULL \/ dataset = NONE THEN {}
    ELSE {i \in DOMAIN dataset.rows :
             /\ dataset.rows[i].listing_price * MinPrice(monthlyRent).d
                    >= MinPrice(monthlyRent).n
             /\ dataset.rows[i].listing_price * MaxPrice(monthlyRent).d
                    <= MaxPrice(monthlyRent).n}

\* C1: the getDatasetStats calls issued while nothing is cached and between
\* the same two resetCache calls share one load: exactly one load was started
\* in that interval, each of these callers awaits it, and each of them, once
\* resumed, has received the statistics that load produced.
C1_SingleFlight ==
    \A t \in TaskIds :
        (Called(t) /\ tasks[t].miss) =>
            /\ LoadsOfEpoch(tasks[t].callEpoch) = {tasks[t].promise.load}
            /\ tasks[t].got # NONE =>
                  /\ loads[tasks[t].promise.load].settled
                  /\ tasks[t].got = loads[tasks[t].promise.load].value
                  /\ IsStats(tasks[t].got)

\* two callers that found nothing cached have both received the result of
\* the one load they shared
C1_Witness ==
    \E t, u \in TaskIds :
        /\ t # u
        /\ tasks[t].miss /\ tasks[u].miss
        /\ tasks[t].callEpoch = tasks[u].callEpoch
        /\ tasks[t].got # NONE /\ tasks[u].got # NONE
        /\ tasks[t].got.available

\* C3 as stated: predictNetMonthlyIncome returns null exactly when the
\* statistics its getDatasetStats() call returned have available = false,
\* and it never throws.
C3_NullIffUnavailable ==
    \A t \in TaskIds :
        Done(t, "predictNetMonthlyIncome") =>
            /\ tasks[t].result # REJECTED
            /\ tasks[t].result = NULL <=> ~tasks[t].stats.available

\* C3 as amended: predictNetMonthlyIncome returns null exactly when the
\* statistics returned by one of its two getDatasetStats() calls (its own,
\* or the one calculateSegmentedOccupancyRate makes for it) have
\* available = false, and it never throws.
C3_NullIffEitherUnavailable ==
    \A t \in TaskIds :
        Done(t, "predictNetMonthlyIncome") =>
            /\ tasks[t].result # REJECTED
            /\ tasks[t].result = NULL <=>
                  \/ ~tasks[t].stats.available
                  \/ (tasks[t].segStats # NONE /\ ~tasks[t].segStats.available)

\* a prediction is null although the first statistics were available, and
\* another one is made when both are available
C3_Witness ==
    \E t \in TaskIds :
        /\ Done(t, "predictNetMonthlyIncome")
        /\ tasks[t].result = NULL
        /\ tasks[t].stats.available
        /\ ~tasks[t].segStats.available

\* C4: predictReturnOverYears returns null or exactly `years` entries with
\* year = 1..years in order; once predictNetMonthlyIncome has returned null
\* for a year nothing more is awaited and the result is null.
C4_AllYearsOrNull ==
    \A t \in TaskIds :
        tasks[t].op = "predictReturnOverYears" =>
            /\ tasks[t].pc = "done" =>
                  /\ tasks[t].result # REJECTED
                  /\ tasks[t].result # NULL =>
                        /\ Len(tasks[t].result.entries) = tasks[t].years
                        /\ \A i \in 1..tasks[t].years :
                               tasks[t].result.entries[i].year = i
            /\ tasks[t].prediction = NULL =>
                  \/ tasks[t].pc = "prediction"
                  \/ tasks[t].pc = "done" /\ tasks[t].result = NULL

\* the first year's entry was pushed, the second year's prediction was null,
\* and null was returned
C4_Witness ==
    \E t \in TaskIds :
        /\ Done(t, "predictReturnOverYears")
        /\ tasks[t].years = 2
        /\ Len(tasks[t].predictions) = 1
        /\ tasks[t].result = NULL

SegDone(t) ==
    /\ Done(t, "calculateSegmentedOccupancyRate")
    /\ tasks[t].result # REJECTED

EmptyBand(t) ==
    /\ tasks[t].segDataset # NULL
    /\ Len(tasks[t].segDataset.rows) > 0
    /\ InBand(tasks[t].segDataset, tasks[t].monthlyRent) = {}

\* C5: whenever calculateSegmentedOccupancyRate returns a result, its
\* globalAOR is the booking rate of the whole cached dataset (the dataset it
\* filtered and counted, when that dataset has records); and when no record
\* falls inside the price band, segmentedAOR equals globalAOR, filteredCount
\* is 0 and usedSegmentation is false.
C5_GlobalAORIsWholeRate ==
    \A t \in TaskIds :
        (SegDone(t) /\ tasks[t].result # NULL) =>
            /\ tasks[t].result.totalCount > 0 =>
                  RateEq(tasks[t].result.globalAOR, WholeRate(tasks[t].segDataset))
            /\ InBand(tasks[t].segDataset, tasks[t].monthlyRent) = {} =>
                  /\ RateEq(tasks[t].result.segmentedAOR, tasks[t].result.globalAOR)
                  /\ tasks[t].result.filteredCount = 0
                  /\ ~tasks[t].result.usedSegmentation

C7_RatesInUnitInterval ==
    /\ cachedStats # NULL => InUnit(cachedStats.bookingRate)
    /\ \A t \in TaskIds :
           (SegDone(t) /\ tasks[t].result # NULL) =>
               /\ InUnit(tasks[t].result.segmentedAOR)
               /\ InUnit(tasks[t].result.globalAOR)
               /\ tasks[t].result.filteredCount <= tasks[t].result.totalCount

\* a segmented result over a band that holds some but not all records, with
\* a positive booking rate cached
C7_Witness ==
    \E t \in TaskIds :
        /\ SegDone(t)
        /\ tasks[t].result # NULL
        /\ tasks[t].result.usedSegmentation
        /\ 0 < tasks[t].result.filteredCount
        /\ tasks[t].result.filteredCount < tasks[t].result.totalCount
        /\ cachedStats # NULL
        /\ cachedStats.bookingRate.n > 0

\* C8: getDatasetStats never rejects and initializeDataset never throws:
\* every load resolves with a statistics object, which has available = false
\* and leaves an empty cached dataset when no path was obtained or an
\* exception occurred; every value an await of getDatasetStats delivered is
\* a statistics object, and initializeDataset returns normally.
C8_NeverRejects ==
    /\ \A l \in 1..Len(loads) :
           loads[l].settled =>
               /\ IsStats(loads[l].value)
               /\ loads[l].outcome # "path" => ~loads[l].value.available
    /\ (datasetLoaded /\ cachedStats # NULL /\ ~cachedStats.available) =>
           cachedDataset = [rows |-> <<>>]
    /\ \A t \in TaskIds :
           /\ tasks[t].got # NONE => IsStats(tasks[t].got)
           /\ Done(t, "getDatasetStats") => IsStats(tasks[t].result)
           /\ Done(t, "initializeDataset") => tasks[t].result = [returned |-> TRUE]

\* a load whose acquisition threw has settled, and initializeDataset, which
\* awaited it, has returned
C8_Witness ==
    \E t \in TaskIds :
        /\ Done(t, "initializeDataset")
        /\ tasks[t].miss
        /\ loads[tasks[t].promise.load].outcome = "rejected"
        /\ ~tasks[t].got.available

----------------------------------------------------------------------------
(* Properties of ensureDataset *)

Age(call) == call.calledAt - call.before.mtime

\* C2: when ensureDataset attempted a download that failed after its
\* retries and a local copy of nonzero size existed before the attempt,
\* ensureDataset returns the local path and a copy of nonzero size is on
\* disk; the failure is propagated only when no such copy existed.
C2_FallsBackToPreviousCopy ==
    (acq # NONE /\ acq.pc = "done" /\ acq.attempted /\ acq.download = "rejected") =>
        IF acq.before # NONE /\ acq.before.size > 0
        THEN acq.result = "path" /\ file # NONE /\ file.size > 0
        ELSE acq.result = "thrown"

\* C9: ensureDataset deletes a zero-length local file first and then treats
\* it as absent; it attempts a download exactly when the local file is
\* absent or its age is strictly greater than the cache duration; for a
\* non-empty file whose age is at most the cache duration it makes no
\* request, returns the path and leaves the file as it was.
C9_DownloadsIffAbsentOrStale ==
    acq # NONE =>
        /\ acq.deletedEmpty <=> (acq.before # NONE /\ acq.before.size = 0)
        /\ acq.attempted <=>
              IF acq.before = NONE THEN TRUE
              ELSE acq.before.size = 0 \/ Age(acq) > 24 * 60 * 60 * 1000
        /\ acq.attempted => acq.requests >= 1
        /\ ~acq.attempted =>
              /\ acq.requests = 0
              /\ acq.pc = "done"
              /\ acq.result = "path"
              /\ file = acq.before

\* a non-empty file exactly one cache duration old was kept without a request
C9_Witness ==
    /\ acq # NONE
    /\ acq.before = PreviousCopy
    /\ Age(acq) = DATASET_CONFIG.CACHE_DURATION
    /\ ~acq.attempted
    /\ acq.result = "path"

----------------------------------------------------------------------------
(* Properties of the financial formulas *)

\* C10: for every integer year >= 3, netMonthlyIncome(r, f, year) equals
\* netMonthlyIncome(r, f, 3); year 1 uses the 30% commission rate, year 2
\* the 25% rate and every other year the 20% rate.
C10_TierCollapse ==
    calc # NONE =>
        (calc.evaluated =>
            /\ calc.year >= 3 =>
                  calc.netMonthly = netMonthlyIncome(calc.monthlyRent, calc.annualFee, 3)
            /\ calc.netMonthly =
                  roundCurrency(
                      NetAnnualNum(calc.monthlyRent, calc.annualFee,
                                   IF calc.year = 1 THEN 30
                                   ELSE IF calc.year = 2 THEN 25 ELSE 20,
                                   ONE),
                      100 * 12))

\* year 5 evaluated, with a result that differs from the one of year 2
C10_Witness ==
    /\ calc # NONE
    /\ calc.evaluated
    /\ calc.year = 5
    /\ calc.netMonthly # netMonthlyIncome(calc.monthlyRent, calc.annualFee, 2)

\* C11: returnOverYears(200000, 1500, 1000, 3) yields for year 1
\* netMonthly = 966.67, annualNet = 11600.04 and roi = 5.8 (here 96667 and
\* 1160004 cents and 580 hundredths of a percent).
C11_WorkedExample ==
    calc # NONE =>
        ((/\ calc.purchasePrice = 200000
          /\ calc.monthlyRent = 150000
          /\ calc.annualFee = 100000
          /\ calc.years = [n |-> 3, d |-> 1]
          /\ calc.returns # NONE) =>
            /\ Len(calc.returns.entries) = 3
            /\ calc.returns.entries[1] =
                   [year |-> 1, netMonthly |-> 96667, annualNet |-> 1160004, roi |-> 580])

\* returnOverYears(200000, 1500, 1000, 3) has been evaluated
C11_Witness ==
    /\ calc # NONE
    /\ calc.purchasePrice = 200000
    /\ calc.monthlyRent = 150000
    /\ calc.annualFee = 100000
    /\ calc.years = [n |-> 3, d |-> 1]
    /\ calc.returns # NONE
    /\ calc.returns.entries[1].netMonthly = 96667

\* the integer nearest to n/d (d > 0), ties away from zero
RoundHalfAwayFromZero(n, d) ==
    IF n >= 0 THEN (2 * n + d) \div (2 * d) ELSE -((2 * (-n) + d) \div (2 * d))

\* C12: netMonthlyIncome returns netAnnual / 12 rounded to 2 decimals with
\* ties at the half-cent rounded away from zero, for negative results as
\* for positive ones (-0.005 gives -0.01 and 0.005 gives 0.01).
C12_HalfAwayFromZero ==
    calc # NONE =>
        (calc.evaluated =>
            calc.netMonthly =
                RoundHalfAwayFromZero(
                    NetAnnualNum(calc.monthlyRent, calc.annualFee,
                                 commissionRate(calc.year), ONE),
                    100 * 12))

IsError(returns) == "error" \in DOMAIN returns

EntryAsClaimed(entry, purchasePrice) ==
    /\ entry.annualNet = entry.netMonthly * 12
    /\ entry.roi = MathRound(entry.netMonthly * 12 * 100, purchasePrice)

\* C15 as stated: in every entry produced by returnOverYears and by
\* predictReturnOverYears annualNet is the rounded netMonthly times 12 and
\* roi is (netMonthly * 12) / purchasePrice * 100 rounded to 2 decimals
\* (purchasePrice = 0, for which the quotient is undefined, left aside).
C15_EntryFields ==
    calc # NONE =>
        /\ (calc.returns # NONE /\ ~IsError(calc.returns)) =>
               \A i \in DOMAIN calc.returns.entries :
                   /\ calc.returns.entries[i].netMonthly =
                          netMonthlyIncome(calc.monthlyRent, calc.annualFee, i)
                   /\ EntryAsClaimed(calc.returns.entries[i], calc.purchasePrice)
        /\ (calc.predicted # NONE /\ calc.purchasePrice # 0) =>
               /\ calc.predicted.entry.netMonthly = calc.predicted.prediction.netMonthly
               /\ EntryAsClaimed(calc.predicted.entry, calc.purchasePrice)

\* C15 as amended: annualNet is the rounded netMonthly times 12 in every
\* entry; roi is (netMonthly * 12) / purchasePrice * 100 rounded to 2
\* decimals when purchasePrice > 0, which returnOverYears guarantees, and
\* roi is 0 in the entries of predictReturnOverYears when purchasePrice <= 0.
C15_EntryFieldsGuarded ==
    calc # NONE =>
        /\ (calc.returns # NONE /\ ~IsError(calc.returns)) =>
               /\ calc.purchasePrice > 0
               /\ \A i \in DOMAIN calc.returns.entries :
                      /\ calc.returns.entries[i].netMonthly =
                             netMonthlyIncome(calc.monthlyRent, calc.annualFee, i)
                      /\ EntryAsClaimed(calc.returns.entries[i], calc.purchasePrice)
        /\ calc.predicted # NONE =>
               /\ calc.predicted.entry.netMonthly = calc.predicted.prediction.netMonthly
               /\ IF calc.purchasePrice > 0
                  THEN EntryAsClaimed(calc.predicted.entry, calc.purchasePrice)
                  ELSE /\ calc.predicted.entry.annualNet =
                              calc.predicted.entry.netMonthly * 12
                       /\ calc.predicted.entry.roi = 0

\* an entry of predictReturnOverYears for a negative purchase price and a
\* positive netMonthly has roi 0
C15_Witness ==
    /\ calc # NONE
    /\ calc.predicted # NONE
    /\ calc.purchasePrice < 0
    /\ calc.predicted.entry.netMonthly > 0
    /\ calc.predicted.entry.roi = 0

----------------------------------------------------------------------------
(* Properties of processSimulation *)

NumberedFromOne(entries) == \A k \in DOMAIN entries : entries[k].year = k

\* C14: for valid inputs returnOverYears returns exactly `years` entries
\* whose year fields are 1..years in order; processSimulation calls it with
\* 3, so every persisted simulation has exactly 3 results.
C14_YearsEntries ==
    /\ \A i \in DOMAIN store :
           /\ Len(store[i].results) = 3
           /\ NumberedFromOne(store[i].results)
    /\ req # NONE =>
           (validationResult(req.body) = {} =>
               \A years \in 1..MaxCalcYears :
                   LET returns == returnOverYears(req.body.purchasePrice,
                                                  req.body.monthlyRent,
                                                  req.body.annualFee,
                                                  [n |-> years, d |-> 1])
                   IN  /\ DOMAIN returns = {"entries"}
                       /\ Len(returns.entries) = years
                       /\ NumberedFromOne(returns.entries))

\* a simulation was persisted
C14_Witness ==
    /\ Len(store) >= 1
    /\ req # NONE
    /\ req.view = "results"
    /\ store[Len(store)].results = req.results.entries

\* C18: when validation reports an error processSimulation saves nothing;
\* the store changes only by one record being appended for a request whose
\* validation passed and for which returnOverYears returned its results;
\* a failure of either step leaves the store unchanged.
C18_SavesOnlyValidated ==
    [][/\ store' # store =>
              /\ req # NONE
              /\ validationResult(req.body) = {}
              /\ req.errors = {}
              /\ DOMAIN req.results = {"entries"}
              /\ store' = Append(store, Document(req.body, req.results.entries))
       /\ req' # NONE =>
              (((req'.errors # {} \/ validationResult(req'.body) # {})
                    \/ DOMAIN req'.results # {"entries"}) =>
                  /\ store' = store
                  /\ req'.pc = "done"
                  /\ req'.view = "index")]_vars

\* a request with validation errors was answered after another one had
\* been saved, and the store still holds that one record
C18_Witness ==
    /\ req # NONE
    /\ req.errors # {}
    /\ req.view = "index"
    /\ Len(store) = 1

----------------------------------------------------------------------------
(* Properties of the segmentation functions *)

InRange(record, minPrice, maxPrice) ==
    /\ RateLeq(minPrice, Rate(record.listing_price, 1))
    /\ RateLeq(Rate(record.listing_price, 1), maxPrice)

\* the rows that lie in the range, in their original order
RECURSIVE InRangeInOrder(_, _, _)
InRangeInOrder(rows, minPrice, maxPrice) ==
    IF rows = <<>> THEN <<>>
    ELSE IF InRange(Head(rows), minPrice, maxPrice)
    THEN <<Head(rows)>> \o InRangeInOrder(Tail(rows), minPrice, maxPrice)
    ELSE InRangeInOrder(Tail(rows), minPrice, maxPrice)

\* C16: filterDatasetByPrice returns exactly the records with
\* minPrice <= listing_price <= maxPrice, in their original order; a record
\* priced exactly at minPrice or at maxPrice is retained.
C16_InclusiveFilter ==
    (calc.filtered # NONE /\ calc.dataset # NULL) =>
        /\ calc.filtered.rows
               = InRangeInOrder(calc.dataset.rows, calc.minPrice, calc.maxPrice)
        /\ \A i \in DOMAIN calc.dataset.rows :
               LET price == Rate(calc.dataset.rows[i].listing_price, 1)
               IN  (/\ RateLeq(calc.minPrice, calc.maxPrice)
                    /\ RateEq(price, calc.minPrice) \/ RateEq(price, calc.maxPrice))
                   => \E j \in DOMAIN calc.filtered.rows :
                          calc.filtered.rows[j] = calc.dataset.rows[i]

\* two rows, the first priced at minPrice and the second at maxPrice, with
\* minPrice < maxPrice, were both kept
C16_Witness ==
    /\ calc.filtered # NONE
    /\ calc.dataset # NULL
    /\ Len(calc.dataset.rows) = 2
    /\ ~RateLeq(calc.maxPrice, calc.minPrice)
    /\ RateEq(Rate(calc.dataset.rows[1].listing_price, 1), calc.minPrice)
    /\ RateEq(Rate(calc.dataset.rows[2].listing_price, 1), calc.maxPrice)
    /\ calc.filtered = calc.dataset

\* C17: calculateSegmentedAOR is count(is_booked = 1) / count(all) for a
\* non-empty set, 1 when every record is booked, and 0 for an empty or
\* missing set.
C17_SegmentedAOR ==
    calc.aor # NONE =>
        LET filteredDataset == calc.aor.of
            rate == calc.aor.rate
        IN  /\ rate.d > 0
            /\ IF filteredDataset = NULL THEN RateEq(rate, ZERO)
               ELSE IF filteredDataset.rows = <<>> THEN RateEq(rate, ZERO)
               ELSE /\ RateEq(rate,
                              Rate(Cardinality({i \in DOMAIN filteredDataset.rows :
                                                   filteredDataset.rows[i].is_booked = 1}),
                                   Len(filteredDataset.rows)))
                    /\ (\A i \in DOMAIN filteredDataset.rows :
                            filteredDataset.rows[i].is_booked = 1)
                           => RateEq(rate, ONE)

\* the rate of a set of two rows of which exactly one is booked
C17_Witness ==
    /\ calc.aor # NONE
    /\ calc.aor.of # NULL
    /\ Len(calc.aor.of.rows) = 2
    /\ calc.aor.of.rows[1].is_booked = 1
    /\ calc.aor.of.rows[2].is_booked = 0
    /\ RateEq(calc.aor.rate, Rate(1, 2))

----------------------------------------------------------------------------
(* Properties of the admin list *)

Listed == IF req = NONE THEN FALSE ELSE req.pc = "done" /\ req.status = 200

\* C19: listSimulations renders totalPages = ceil(total / limit), hasNext
\* iff page < totalPages and hasPrev iff page > 1; with total = 45 and
\* limit = 20 there are 3 pages, hasNext is true on pages 1 and 2 and false
\* on page 3, and hasPrev is false on page 1 only.
C19_PaginationMetadata ==
    Listed =>
        LET shown == req.pagination
            page == shown.currentPage
        IN  /\ shown.total = Len(store)
            /\ shown.limit >= 1
            /\ shown.totalPages * shown.limit >= shown.total
            /\ (shown.totalPages - 1) * shown.limit < shown.total
            /\ shown.hasNext <=> page < shown.totalPages
            /\ shown.hasPrev <=> page > 1
            /\ (shown.total = 45 /\ shown.limit = 20) =>
                   /\ shown.totalPages = 3
                   /\ shown.hasNext <=> page \in {1, 2}
                   /\ shown.hasPrev <=> page # 1

\* page 3 of 45 documents listed 20 to a page
C19_Witness ==
    /\ Listed
    /\ req.pagination.total = 45
    /\ req.pagination.limit = 20
    /\ req.pagination.currentPage = 3
    /\ ~req.pagination.hasNext
    /\ req.pagination.hasPrev

----------------------------------------------------------------------------
(* The loads in flight *)

InFlight == {l \in 1..Len(loads) : ~loads[l].settled}

\* C20: at most one dataset load is in flight at any time, in every
\* interleaving of getDatasetStats and resetCache, also when resetCache runs
\* while a load is in flight and getDatasetStats is called again before that
\* load completes.
C20_AtMostOneLoadInFlight == Cardinality(InFlight) <= 1

----------------------------------------------------------------------------
(* resetCache and the loads it overtakes *)

\* the load l completes in this step
Completes(l) == ~loads[l].settled /\ loads'[l].settled

\* C21: after resetCache the cache stays cleared until a new load is
\* started: a load that was in flight when resetCache was called does not
\* repopulate cachedStats, cachedDataset or datasetLoaded, so the next
\* getDatasetStats call is answered by a load started after the reset.
C21_ResetForcesReload ==
    [][\A l \in 1..Len(loads) :
           (Completes(l) /\ loads[l].epoch < epoch) =>
               /\ cachedStats' = cachedStats
               /\ cachedDataset' = cachedDataset
               /\ datasetLoaded' = datasetLoaded]_vars

\* a load has completed and the cache holds what it produced
LoadCompleted ==
    /\ StatsCached
    /\ \E l \in 1..Len(loads) : loads[l].settled /\ loads[l].value = cachedStats

\* C22: once a load has completed, with available true or false, every
\* later getDatasetStats call returns the same cached statistics and starts
\* no new load, until resetCache is called.
C22_CachedUntilReset ==
    [][(LoadCompleted /\ epoch' = epoch) =>
           /\ cachedStats' = cachedStats
           /\ Len(loads') = Len(loads)]_vars

----------------------------------------------------------------------------
(* Properties of downloadDataset *)

Downloading == IF acq = NONE THEN FALSE ELSE acq.download = "pending"
DownloadSettled == IF acq = NONE THEN FALSE ELSE acq.download \in {"resolved", "rejected"}

\* C23: one downloadDataset call issues at most 3 HTTP requests in total,
\* the first request, followed redirects, confirmation-page retries and
\* network-error retries all counting against one attempt counter, and for
\* every sequence of responses and network errors it eventually resolves or
\* rejects.
C23_BoundedAndSettles ==
    /\ [](acq # NONE =>
              /\ acq.requests <= 3
              /\ acq.requests <= acq.downloadAttempts)
    /\ Downloading ~> DownloadSettled


\* the request in flight is the retry the 'error' handler scheduled
RetryInFlight == IF acq = NONE THEN FALSE ELSE acq.pc = "request" /\ acq.via = "retried"

\* C24: when an attempt fails at network level while attempts remain,
\* downloadDataset retries from the original URL after the backoff, and when
\* that retry receives a 200 response with a non-empty CSV body the download
\* resolves with the downloaded file present at the local path.
C24_RetrySucceeds ==
    [][(RetryInFlight /\ Response("csv")) =>
           /\ acq'.download = "resolved"
           /\ file' # NONE
           /\ file' = Body("csv")]_vars


\* C25: downloadDataset resolves only if the final response had status 200
\* and the written file is non-empty and holds a comma or a newline; in every
\* other terminal outcome it rejects and leaves no file at the local path.
C25_ResolvesOnlyOnCsv ==
    (acq # NONE) =>
        (acq.pc = "settled" =>
            IF acq.download = "resolved"
            THEN /\ acq.last = "csv"
                 /\ file # NONE
                 /\ file.size > 0 /\ file.csv
            ELSE /\ acq.download = "rejected"
                 /\ file = NONE)

----------------------------------------------------------------------------
(* Consistency of the cache *)

\* C26: whenever datasetLoaded is true, cachedStats and cachedDataset are
\* both non-null and agree: totalProperties is the length of cachedDataset,
\* bookingRate is count(is_booked = 1) / length (0 when empty), and
\* available = false implies that cachedDataset is empty; under every
\* interleaving of getDatasetStats, getDatasetStatsSync and resetCache.
C26_CacheConsistent ==
    datasetLoaded =>
        /\ cachedStats # NULL
        /\ cachedDataset # NULL
        /\ cachedStats.totalProperties = Len(cachedDataset.rows)
        /\ cachedStats.bookingRate.d > 0
        /\ RateEq(cachedStats.bookingRate,
                  IF Len(cachedDataset.rows) = 0 THEN ZERO
                  ELSE Rate(Cardinality({i \in DOMAIN cachedDataset.rows :
                                            cachedDataset.rows[i].is_booked = 1}),
                            Len(cachedDataset.rows)))
        /\ ~cachedStats.available => cachedDataset.rows = <<>>

\* after a resetCache and a getDatasetStatsSync, a load has completed and
\* the cache holds two rows of which one is booked
C26_Witness ==
    /\ datasetLoaded
    /\ epoch >= 1
    /\ syncs >= 1
    /\ \E l \in 1..Len(loads) : loads[l].settled /\ loads[l].value = cachedStats
    /\ Len(cachedDataset.rows) = 2
    /\ RateEq(cachedStats.bookingRate, Rate(1, 2))

----------------------------------------------------------------------------
(* The prediction against the baseline formula *)

\* the commission tier of section 4.1, in percent
Tier(year) == IF year = 1 THEN 30 ELSE IF year = 2 THEN 25 ELSE 20

\* C27: for every year the netMonthly of predictNetMonthlyIncome is the
\* section 4.1 formula applied to monthlyRent times the segmented occupancy
\* rate, with the same commission tier; it equals netMonthlyIncome(monthlyRent,
\* annualFee, year) when the occupancy rate is 1 and never exceeds it when
\* monthlyRent >= 0.
C27_PredictionRefinesFormula ==
    calc # NONE =>
        (calc.predicted # NONE =>
            LET occ == calc.predicted.occupancy
                netMonthly == calc.predicted.prediction.netMonthly
                baseline == netMonthlyIncome(calc.monthlyRent, calc.annualFee, calc.year)
            IN  /\ netMonthly =
                       MathRound(calc.monthlyRent * occ.n * 12 * (100 - Tier(calc.year))
                                     - calc.annualFee * 100 * occ.d,
                                 100 * 12 * occ.d)
                /\ (calc.monthlyRent * occ.n) % occ.d = 0 =>
                       netMonthly = netMonthlyIncome((calc.monthlyRent * occ.n) \div occ.d,
                                                     calc.annualFee, calc.year)
                /\ RateEq(occ, ONE) => netMonthly = baseline
                /\ calc.monthlyRent >= 0 => netMonthly <= baseline)

\* at half occupancy the prediction for a rent of 1500.00 lies below the
\* baseline
C27_Witness ==
    /\ calc # NONE
    /\ calc.predicted # NONE
    /\ calc.predicted.occupancy = Rate(1, 2)
    /\ calc.monthlyRent = 150000
    /\ calc.year = 2
    /\ calc.predicted.prediction.netMonthly
           < netMonthlyIncome(calc.monthlyRent, calc.annualFee, calc.year)

----------------------------------------------------------------------------
(* A dataset file without records *)

\* statistics of an obtained file that held no record
AvailableAndEmpty(stats) ==
    IF stats = NONE \/ stats = NULL \/ stats = REJECTED THEN FALSE
    ELSE stats.available /\ stats.totalProperties = 0

\* predictNetMonthlyIncome has returned after both of its getDatasetStats()
\* calls delivered such statistics and the cached dataset it read was empty
PredictedOnEmpty(t) ==
    /\ Done(t, "predictNetMonthlyIncome")
    /\ AvailableAndEmpty(tasks[t].stats)
    /\ AvailableAndEmpty(tasks[t].segStats)
    /\ tasks[t].segDataset # NULL
    /\ tasks[t].segDataset # NONE
    /\ tasks[t].segDataset.rows = <<>>

----------------------------------------------------------------------------
(* Properties of the cast of loadDataset *)

\* C30: every record returned by loadDataset has is_booked equal to 0 or 1,
\* and each of surface_m2, bedrooms, location_score and listing_price is a
\* number that is 0 when the text cannot be parsed, for every text value of
\* those columns.
C30_CastColumns ==
    calc.cast # NONE =>
        /\ calc.column = "is_booked" =>
               /\ DOMAIN calc.cast = {"number"}
               /\ ~calc.cast.number.nan
               /\ calc.cast.number.d = 1
               /\ calc.cast.number.n \in {0, 1}
        /\ calc.column \in {"surface_m2", "bedrooms", "location_score", "listing_price"} =>
               /\ DOMAIN calc.cast = {"number"}
               /\ ~calc.cast.number.nan
               /\ parseFloat(calc.value).nan => calc.cast.number = Number(0, 1)

----------------------------------------------------------------------------
(* The submission path and the dataset cache *)

\* C29: processSimulation and returnOverYears neither read nor change
\* cachedStats, cachedDataset, datasetLoaded and datasetLoadingPromise, and a
\* submission completes with the same baseline results whether a dataset
\* load is in flight, has failed or has never started.
C29_SubmissionIgnoresCache ==
    /\ [][(req' # req \/ store' # store) =>
              /\ cachedStats' = cachedStats
              /\ cachedDataset' = cachedDataset
              /\ datasetLoaded' = datasetLoaded
              /\ datasetLoadingPromise' = datasetLoadingPromise
              /\ loads' = loads]_vars
    /\ [](req # NONE =>
              (validationResult(req.body) = {} =>
                  LET baseline == returnOverYears(req.body.purchasePrice,
                                                  req.body.monthlyRent,
                                                  req.body.annualFee, [n |-> 3, d |-> 1])
                  IN  /\ req.results = baseline
                      /\ req.view = "results" =>
                             store[Len(store)].results = baseline.entries))

\* a simulation was saved and shown while one load had failed and, after a
\* resetCache, another one was in flight
C29_Witness ==
    /\ req # NONE
    /\ req.view = "results"
    /\ Len(store) >= 1
    /\ InFlight # {}
    /\ ~datasetLoaded
    /\ \E l \in 1..Len(loads) : loads[l].settled /\ loads[l].outcome = "rejected"

====
